---- MODULE Spec2Model ----
(***************************************************************************)
(* Model of src/app.py: a Streamlit schedule application.  The event       *)
(* document is a nested mapping year-month -> date -> list of event        *)
(* records, kept in the JSON file events.json.  Every user interaction     *)
(* runs the whole script: the document is loaded from the file, the        *)
(* handler of the widget that fired runs, and add/delete save the whole    *)
(* document and restart the script (st.rerun).                             *)
(*                                                                         *)
(* Python values are represented as follows.                               *)
(*   str   a sequence of characters: an ASCII character is the string of   *)
(*         that character, any other is named by its code point ("U+4F1A") *)
(*   dict  a sequence of [k, v] pairs in insertion order (Python dicts     *)
(*         keep insertion order; json.dump writes in that order)           *)
(*   list  a sequence                                                      *)
(* The file content is a sequence of JSON tokens; a string literal token   *)
(* carries its escaped characters, a whitespace token the indent depth.    *)
(***************************************************************************)
EXTENDS Integers, Sequences, FiniteSets, TLC

(* ------------------------------ bounds --------------------------------- *)

\* most events the document holds at once (the add action is capped here)
MaxEvents == 2

\* the month cursor moves at most this many months away from today's month
MaxNav == 1

\* most script runs the users of SpecConc start, all sessions together
MaxRuns == 2

\* the latest reading of the clock at which SpecOrder adds an event
MaxClock == 3

\* most presses of the navigation buttons in SpecNav
MaxPresses == 12

(* ------------------------------ strings -------------------------------- *)

Digits == <<"0", "1", "2", "3", "4", "5", "6", "7", "8", "9">>

Pad2(n) == <<Digits[((n \div 10) % 10) + 1], Digits[(n % 10) + 1]>>

Pad4(n) == Pad2(n \div 100) \o Pad2(n % 100)

\* date.strftime("%Y-%m-%d") for a date <<year, month, day>>
strftime(d) == Pad4(d[1]) \o <<"-">> \o Pad2(d[2]) \o <<"-">> \o Pad2(d[3])

\* datetime.isoformat() of the clock reading t taken on the day `day`
isoformat(day, t) == strftime(day) \o <<"T">> \o Pad2(t)

\* s[:n]
Prefix(s, n) == SubSeq(s, 1, IF n < Len(s) THEN n ELSE Len(s))

K_title == <<"t", "i", "t", "l", "e">>

K_description == <<"d", "e", "s", "c", "r", "i", "p", "t", "i", "o", "n">>

K_timestamp == <<"t", "i", "m", "e", "s", "t", "a", "m", "p">>

(* ------------------------------- dicts --------------------------------- *)

\* k in d
HasKey(d, k) == \E j \in 1..Len(d) : d[j].k = k

KeyIndex(d, k) == CHOOSE j \in 1..Len(d) : d[j].k = k

\* d[k]
Get(d, k) == d[KeyIndex(d, k)].v

\* d[k] = v : an existing key keeps its place, a new key goes last
Put(d, k, v) ==
    IF HasKey(d, k)
      THEN [d EXCEPT ![KeyIndex(d, k)] = [k |-> k, v |-> v]]
      ELSE Append(d, [k |-> k, v |-> v])

\* del s[j] (j counts from 1 here)
RemoveAt(s, j) == SubSeq(s, 1, j - 1) \o SubSeq(s, j + 1, Len(s))

\* del d[k]
DelKey(d, k) == RemoveAt(d, KeyIndex(d, k))

(* -------------------------------- JSON --------------------------------- *)

Tok(t) == [t |-> t]

\* newline followed by the indentation of nesting level n (indent=4)
Ws(n) == [t |-> "ws", n |-> 4 * n]

\* EscapeChar as a writer that puts every character between the quotes
\* as it is would have it
EscapeChar_raw(c) == <<c>>

\* one character inside a string literal; ensure_ascii=False leaves every
\* non-ASCII character as it is
EscapeChar(c) ==
    CASE c = "\"" -> <<"\\", "\"">>
      [] c = "\\" -> <<"\\", "\\">>
      [] c = "\n" -> <<"\\", "n">>
      [] OTHER    -> <<c>>

\* the characters json.dump writes between the quotes for the str s
RECURSIVE EscapeFrom(_, _)
EscapeFrom(s, j) ==
    IF j > Len(s) THEN <<>> ELSE EscapeChar(s[j]) \o EscapeFrom(s, j + 1)

Escape(s) ==
    IF \A j \in 1..Len(s) : s[j] \notin {"\"", "\\", "\n"} THEN s
    ELSE EscapeFrom(s, 1)

\* whether the characters from j on are a string literal's content: no bare
\* quote or newline, and every backslash starts a known escape
RECURSIVE WellEscapedFrom(_, _)
WellEscapedFrom(s, j) ==
    IF j > Len(s) THEN TRUE
    ELSE IF s[j] = "\\"
      THEN j + 1 <= Len(s) /\ s[j + 1] \in {"\"", "\\", "n"}
           /\ WellEscapedFrom(s, j + 2)
      ELSE s[j] \notin {"\"", "\n"} /\ WellEscapedFrom(s, j + 1)

WellEscaped(s) ==
    IF \A j \in 1..Len(s) : s[j] \notin {"\"", "\\", "\n"} THEN TRUE
    ELSE WellEscapedFrom(s, 1)

\* the str a well-escaped string literal stands for
RECURSIVE UnescapeFrom(_, _)
UnescapeFrom(s, j) ==
    IF j > Len(s) THEN <<>>
    ELSE IF s[j] = "\\"
      THEN <<IF s[j + 1] = "n" THEN "\n" ELSE s[j + 1]>> \o UnescapeFrom(s, j + 2)
      ELSE <<s[j]>> \o UnescapeFrom(s, j + 1)

Unescape(s) ==
    IF \A j \in 1..Len(s) : s[j] # "\\" THEN s ELSE UnescapeFrom(s, 1)

StrTok(s) == [t |-> "str", s |-> Escape(s)]

\* the kind of value found inside a value of each kind of the document
ChildKind(kind) ==
    CASE kind = "doc"   -> "month"
      [] kind = "month" -> "list"
      [] kind = "list"  -> "event"
      [] kind = "event" -> "str"

RECURSIVE json_encode(_, _, _), EncodeItems(_, _, _, _)
\* the tokens json.dump(..., ensure_ascii=False, indent=4) writes for v,
\* which sits at nesting level lvl
json_encode(v, kind, lvl) ==
    CASE kind = "str"  -> <<StrTok(v)>>
      [] kind = "list" ->
           IF v = <<>> THEN <<Tok("["), Tok("]")>>
           ELSE <<Tok("[")>> \o EncodeItems(v, 1, kind, lvl + 1)
                \o <<Ws(lvl), Tok("]")>>
      [] OTHER ->
           IF v = <<>> THEN <<Tok("{"), Tok("}")>>
           ELSE <<Tok("{")>> \o EncodeItems(v, 1, kind, lvl + 1)
                \o <<Ws(lvl), Tok("}")>>

\* items j.. of the list or dict v, each on a line of its own at level lvl
EncodeItems(v, j, kind, lvl) ==
    IF j > Len(v) THEN <<>>
    ELSE <<Ws(lvl)>>
         \o (IF kind = "list"
               THEN json_encode(v[j], ChildKind(kind), lvl)
               ELSE <<StrTok(v[j].k), Tok(":")>>
                    \o json_encode(v[j].v, ChildKind(kind), lvl))
         \o (IF j < Len(v) THEN <<Tok(",")>> ELSE <<>>)
         \o EncodeItems(v, j + 1, kind, lvl)

json_dump(events) == json_encode(events, "doc", 0)

\* the type of token i, "eof" past the end
At(toks, i) == IF i <= Len(toks) THEN toks[i].t ELSE "eof"

\* the first position at or after i that holds no whitespace
SkipWs(toks, i) ==
    CHOOSE j \in i..(Len(toks) + 1) :
        /\ At(toks, j) # "ws"
        /\ \A m \in i..(j - 1) : At(toks, m) = "ws"

Fail == [ok |-> FALSE, v |-> <<>>, i |-> 0]

\* the element of a one-element set.  A value that is used more than once
\* is bound as the element of a one-element set, so that it is computed once.
Only(S) == CHOOSE x \in S : TRUE

RECURSIVE ParseValue(_, _), ParseMembers(_, _, _), ParseElements(_, _, _)
\* the JSON value that starts at or after position i0: a str, a dict or a list
ParseValue(toks, i0) ==
    Only({ CASE At(toks, i) = "str" ->
                  IF WellEscaped(toks[i].s)
                    THEN [ok |-> TRUE, v |-> Unescape(toks[i].s), i |-> i + 1]
                    ELSE Fail
             [] At(toks, i) = "{" ->
                  IF At(toks, SkipWs(toks, i + 1)) = "}"
                    THEN [ok |-> TRUE, v |-> <<>>, i |-> SkipWs(toks, i + 1) + 1]
                    ELSE ParseMembers(toks, i + 1, <<>>)
             [] At(toks, i) = "[" ->
                  IF At(toks, SkipWs(toks, i + 1)) = "]"
                    THEN [ok |-> TRUE, v |-> <<>>, i |-> SkipWs(toks, i + 1) + 1]
                    ELSE ParseElements(toks, i + 1, <<>>)
             [] OTHER -> Fail
           : i \in {SkipWs(toks, i0)} })

\* "key": value pairs up to the closing brace, acc holding the pairs before
\* i0; a repeated key keeps its first place and takes the later value
ParseMembers(toks, i0, acc) ==
    Only({ IF At(toks, i) # "str" \/ ~WellEscaped(toks[i].s)
              \/ At(toks, SkipWs(toks, i + 1)) # ":"
             THEN Fail
             ELSE Only({ IF ~r.ok THEN Fail
                         ELSE Only({ IF At(toks, n) = ","
                                       THEN ParseMembers(toks, n + 1, d)
                                     ELSE IF At(toks, n) = "}"
                                       THEN [ok |-> TRUE, v |-> d, i |-> n + 1]
                                     ELSE Fail
                                   : n \in {SkipWs(toks, r.i)},
                                     d \in {Put(acc, Unescape(toks[i].s), r.v)} })
                       : r \in {ParseValue(toks, SkipWs(toks, i + 1) + 1)} })
           : i \in {SkipWs(toks, i0)} })

\* values up to the closing bracket, acc holding the values before i0
ParseElements(toks, i0, acc) ==
    Only({ IF ~r.ok THEN Fail
           ELSE Only({ IF At(toks, n) = ","
                         THEN ParseElements(toks, n + 1, d)
                       ELSE IF At(toks, n) = "]"
                         THEN [ok |-> TRUE, v |-> d, i |-> n + 1]
                       ELSE Fail
                     : n \in {SkipWs(toks, r.i)}, d \in {Append(acc, r.v)} })
           : r \in {ParseValue(toks, i0)} })

\* json.load: one value and nothing but whitespace after it; anything else
\* raises JSONDecodeError (ok = FALSE)
json_load(toks) ==
    Only({ IF r.ok /\ SkipWs(toks, r.i) = Len(toks) + 1 THEN r ELSE Fail
           : r \in {ParseValue(toks, 1)} })

(* ------------------------------ the store ------------------------------ *)

\* the file events.json: exists is os.path.exists(DATA_FILE), content its text
NoFile == [exists |-> FALSE, content |-> <<>>]

\* load_events with the decode error swallowed: no st.error
load_events_silent(f) ==
    IF ~f.exists THEN [doc |-> <<>>, err |-> FALSE]
    ELSE [doc |-> json_load(f.content).v, err |-> FALSE]

\* load_events(): the document, and whether st.error reported a corrupt file
load_events(f) ==
    IF ~f.exists THEN [doc |-> <<>>, err |-> FALSE]
    ELSE Only({ IF r.ok THEN [doc |-> r.v, err |-> FALSE]
                ELSE [doc |-> <<>>, err |-> TRUE]
              : r \in {json_load(f.content)} })

\* save_events writing the latest year-month mapping only
save_events_latest_month(events) ==
    [exists |-> TRUE,
     content |-> json_dump(IF events = <<>> THEN <<>> ELSE <<events[Len(events)]>>)]

\* save_events(events): the file after the whole document is written
save_events(events) == [exists |-> TRUE, content |-> json_dump(events)]

\* selected_year_month as selected_date_str[:4], the year alone
selected_year_month_year(date_str) == Prefix(date_str, 4)

\* selected_date_str[:7]
selected_year_month(date_str) == Prefix(date_str, 7)

\* the record the add handler appends
EventRecord(title, description, timestamp) ==
    << [k |-> K_title, v |-> title],
       [k |-> K_description, v |-> description],
       [k |-> K_timestamp, v |-> timestamp] >>

\* add_event with insert(0, ...) in place of append
add_event_prepend(events, date_str, title, description, timestamp) ==
    LET ym == selected_year_month(date_str)
        e1 == IF ~HasKey(events, ym) THEN Put(events, ym, <<>>) ELSE events
        m1 == Get(e1, ym)
        m2 == IF ~HasKey(m1, date_str) THEN Put(m1, date_str, <<>>) ELSE m1
        l2 == <<EventRecord(title, description, timestamp)>> \o Get(m2, date_str)
    IN  Put(e1, ym, Put(m2, date_str, l2))

\* add_event with events[ym] = {} not guarded by the test that ym is absent
add_event_reset_month(events, date_str, title, description, timestamp) ==
    LET ym == selected_year_month(date_str)
        e1 == Put(events, ym, <<>>)
        m2 == Put(Get(e1, ym), date_str, <<>>)
        l2 == Append(Get(m2, date_str), EventRecord(title, description, timestamp))
    IN  Put(e1, ym, Put(m2, date_str, l2))

\* add_event with insert(-1, ...) in place of append: the record goes before
\* the last one
add_event_before_last(events, date_str, title, description, timestamp) ==
    LET ym == selected_year_month(date_str)
        e1 == IF ~HasKey(events, ym) THEN Put(events, ym, <<>>) ELSE events
        m1 == Get(e1, ym)
        m2 == IF ~HasKey(m1, date_str) THEN Put(m1, date_str, <<>>) ELSE m1
        l1 == Get(m2, date_str)
        l2 == IF l1 = <<>> THEN <<EventRecord(title, description, timestamp)>>
              ELSE SubSeq(l1, 1, Len(l1) - 1)
                   \o <<EventRecord(title, description, timestamp), l1[Len(l1)]>>
    IN  Put(e1, ym, Put(m2, date_str, l2))

\* the add handler's changes to events, for a non-empty title
add_event(events, date_str, title, description, timestamp) ==
    LET ym == selected_year_month(date_str)
        e1 == IF ~HasKey(events, ym) THEN Put(events, ym, <<>>) ELSE events
        m1 == Get(e1, ym)
        m2 == IF ~HasKey(m1, date_str) THEN Put(m1, date_str, <<>>) ELSE m1
        l2 == Append(Get(m2, date_str), EventRecord(title, description, timestamp))
    IN  Put(e1, ym, Put(m2, date_str, l2))

\* delete_event without the removal of the emptied date key
delete_event_keep_date(events, date_str, i) ==
    LET ym == selected_year_month(date_str)
        m  == Get(events, ym)
        l1 == RemoveAt(Get(m, date_str), i + 1)
    IN  Put(events, ym, Put(m, date_str, l1))

\* delete_event without the removal of the emptied year-month key
delete_event_keep_month(events, date_str, i) ==
    LET ym == selected_year_month(date_str)
        m  == Get(events, ym)
        l1 == RemoveAt(Get(m, date_str), i + 1)
        m1 == Put(m, date_str, l1)
        m2 == IF l1 = <<>> THEN DelKey(m1, date_str) ELSE m1
    IN  Put(events, ym, m2)

\* delete_event with pop() in place of del ...[i]: the last element goes
delete_event_pop(events, date_str, i) ==
    LET ym == selected_year_month(date_str)
        m  == Get(events, ym)
        l1 == RemoveAt(Get(m, date_str), Len(Get(m, date_str)))
        m1 == Put(m, date_str, l1)
        m2 == IF l1 = <<>> THEN DelKey(m1, date_str) ELSE m1
        e1 == Put(events, ym, m2)
    IN  IF m2 = <<>> THEN DelKey(e1, ym) ELSE e1

\* the delete handler's changes to events; i counts from 0 and is in range
delete_event(events, date_str, i) ==
    LET ym == selected_year_month(date_str)
        m  == Get(events, ym)
        l1 == RemoveAt(Get(m, date_str), i + 1)
        m1 == Put(m, date_str, l1)
        m2 == IF l1 = <<>> THEN DelKey(m1, date_str) ELSE m1
        e1 == Put(events, ym, m2)
    IN  IF m2 = <<>> THEN DelKey(e1, ym) ELSE e1

\* whether the list section finds the date: ym in events and date in events[ym]
HasDate(events, date_str) ==
    /\ HasKey(events, selected_year_month(date_str))
    /\ HasKey(Get(events, selected_year_month(date_str)), date_str)

\* the list the list section shows for the date (nothing when it is absent)
daily_events(events, date_str) ==
    IF HasDate(events, date_str)
      THEN Get(Get(events, selected_year_month(date_str)), date_str)
      ELSE <<>>

(* ------------------------------ the inputs ----------------------------- *)

\* datetime.now() at session start
Today == <<2024, 12, 31>>

\* the dates the date picker is set to
Days == {<<2024, 12, 31>>, <<2025, 1, 1>>, <<2025, 1, 2>>}

\* what the add form holds when the button is pressed: <<title, description>>
Forms == { <<<<>>, <<>>>>,
           <<<<"M">>, <<>>>>,
           <<<<"U+4F1A", "\"">>, <<"U+8B70", "\n", "\\">>>> }

\* the readings of datetime.now() when an event is added
Times == {0}

\* a document of one event, as a previous session left it
OldDoc == add_event(<<>>, strftime(Today), <<"U+4F1A">>, <<>>, isoformat(Today, 0))

\* a document of two events on one date
PairDoc == add_event(OldDoc, strftime(Today), <<"M">>, <<>>, isoformat(Today, 0))

\* what events.json may hold when the session starts: no file, an empty
\* file, an unclosed brace, a document cut short, the empty document
InitialFiles ==
    { NoFile,
      [exists |-> TRUE, content |-> <<>>],
      [exists |-> TRUE, content |-> <<Tok("{")>>],
      [exists |-> TRUE,
       content |-> SubSeq(json_dump(OldDoc), 1, Len(json_dump(OldDoc)) - 2)],
      save_events(<<>>) }

(* ------------------------------ the state ------------------------------ *)

VARIABLES
    data_file,          \* the file events.json
    events,             \* the document of the latest script run
    current_year,       \* st.session_state.current_year
    current_month,      \* st.session_state.current_month
    date_picker,        \* the date picker's value, <<year, month, day>>
    selected_date_str,  \* st.session_state.selected_date_str
    fired,              \* the widget whose event the latest interaction handled
    msgs,               \* the messages the latest interaction showed
    saved,              \* whether the latest interaction called save_events
    written,            \* the document last passed to save_events ({} before
                        \* the first save)
    sessions,           \* the script runs of the browser sessions that share
                        \* the file (SpecConc; none elsewhere)
    trail               \* the navigation buttons pressed so far, each with the
                        \* cursor it left (SpecNav; empty elsewhere)

vars == <<data_file, events, current_year, current_month, date_picker,
          selected_date_str, fired, msgs, saved, written, sessions, trail>>

\* st.error of load_events, l being what load_events returned
LoadMsgs(l) == IF l.err THEN {"error"} ELSE {}

\* the messages of a script run that loaded l and in which no button fired:
\* the load's error, and the list section's st.info when the date has no
\* events
RenderMsgs(l, date_str) ==
    LoadMsgs(l)
    \cup (IF daily_events(l.doc, date_str) = <<>> THEN {"info"} ELSE {})

\* number of events under the dates j.. of the year-month mapping m
RECURSIVE CountFrom(_, _)
CountFrom(m, j) == IF j > Len(m) THEN 0 ELSE Len(m[j].v) + CountFrom(m, j + 1)

\* number of events in the document
RECURSIVE CountEvents(_)
CountEvents(doc) ==
    IF doc = <<>> THEN 0 ELSE CountFrom(Head(doc).v, 1) + CountEvents(Tail(doc))

\* months between today's month and the displayed month
NavOffset == (12 * current_year + current_month) - (12 * Today[1] + Today[2])

\* the browser sessions of SpecConc; each runs the script in a thread of its
\* own against the one file
Sessions == {1, 2}

\* a widget event: the add button with the form's content, or the delete
\* button of position i
WidgetEvent(w, title, description, i) ==
    [w |-> w, title |-> title, description |-> description, i |-> i]

NoEvent == WidgetEvent("none", <<>>, <<>>, 0)

\* a session between two script runs, `runs` of them started so far: the page
\* shows the list `view` of the selected date, and the load's error when err
Quiet(err, view, runs) ==
    [pc |-> "idle", doc |-> <<>>, err |-> err, view |-> view, ev |-> NoEvent,
     base |-> <<>>, target |-> <<>>, removed |-> <<>>, over |-> "none",
     runs |-> runs]

\* the first script run of a session
Init ==
    /\ data_file \in InitialFiles
    /\ events = load_events(data_file).doc
    /\ current_year = Today[1]
    /\ current_month = Today[2]
    /\ date_picker = Today
    /\ selected_date_str = strftime(Today)
    /\ fired = "none"
    /\ msgs = RenderMsgs(load_events(data_file), strftime(Today))
    /\ saved = FALSE
    /\ written = <<>>
    /\ sessions = <<>>
    /\ trail = <<>>

\* PrevMonth without the year's decrement at the wrap
PrevMonth_no_year ==
    \E l \in {load_events(data_file)} :
        /\ NavOffset > -MaxNav
        /\ current_month' = IF current_month - 1 < 1 THEN 12 ELSE current_month - 1
        /\ current_year' = current_year
        /\ events' = l.doc
        /\ msgs' = RenderMsgs(l, selected_date_str)
        /\ fired' = "prev_month"
        /\ saved' = FALSE
        /\ UNCHANGED <<data_file, date_picker, selected_date_str, written>>

\* the "prev_month" button: the month cursor moves back, then st.rerun()
\* runs the script again, which loads the document and renders
PrevMonth ==
    \E l \in {load_events(data_file)} :
        /\ NavOffset > -MaxNav
        /\ current_month' = IF current_month - 1 < 1 THEN 12 ELSE current_month - 1
        /\ current_year' = IF current_month - 1 < 1 THEN current_year - 1
                           ELSE current_year
        /\ events' = l.doc
        /\ msgs' = RenderMsgs(l, selected_date_str)
        /\ fired' = "prev_month"
        /\ saved' = FALSE
        /\ UNCHANGED <<data_file, date_picker, selected_date_str, written>>

\* NextMonth with the wrap tested one month late
NextMonth_late_wrap ==
    \E l \in {load_events(data_file)} :
        /\ NavOffset < MaxNav
        /\ current_month' = IF current_month + 1 > 13 THEN 1 ELSE current_month + 1
        /\ current_year' = IF current_month + 1 > 13 THEN current_year + 1
                           ELSE current_year
        /\ events' = l.doc
        /\ msgs' = RenderMsgs(l, selected_date_str)
        /\ fired' = "next_month"
        /\ saved' = FALSE
        /\ UNCHANGED <<data_file, date_picker, selected_date_str, written>>

\* the "next_month" button
NextMonth ==
    \E l \in {load_events(data_file)} :
        /\ NavOffset < MaxNav
        /\ current_month' = IF current_month + 1 > 12 THEN 1 ELSE current_month + 1
        /\ current_year' = IF current_month + 1 > 12 THEN current_year + 1
                           ELSE current_year
        /\ events' = l.doc
        /\ msgs' = RenderMsgs(l, selected_date_str)
        /\ fired' = "next_month"
        /\ saved' = FALSE
        /\ UNCHANGED <<data_file, date_picker, selected_date_str, written>>

\* SelectDate with a list section that reads the list through setdefault,
\* which creates the keys it does not find
SelectDate_setdefault(d) ==
    \E l \in {load_events(data_file)} :
        /\ date_picker' = d
        /\ selected_date_str' = strftime(d)
        /\ events' = IF HasDate(l.doc, strftime(d)) THEN l.doc
                     ELSE Put(IF HasKey(l.doc, selected_year_month(strftime(d)))
                                THEN l.doc
                                ELSE Put(l.doc, selected_year_month(strftime(d)), <<>>),
                              selected_year_month(strftime(d)),
                              Put(IF HasKey(l.doc, selected_year_month(strftime(d)))
                                    THEN Get(l.doc, selected_year_month(strftime(d)))
                                    ELSE <<>>,
                                  strftime(d), <<>>))
        /\ msgs' = RenderMsgs(l, strftime(d))
        /\ fired' = "date_picker"
        /\ saved' = FALSE
        /\ UNCHANGED <<data_file, current_year, current_month, written>>

\* SelectDate with the month cursor following the selected date
SelectDate_moves_cursor(d) ==
    \E l \in {load_events(data_file)} :
        /\ date_picker' = d
        /\ selected_date_str' = strftime(d)
        /\ current_year' = d[1]
        /\ current_month' = d[2]
        /\ events' = l.doc
        /\ msgs' = RenderMsgs(l, strftime(d))
        /\ fired' = "date_picker"
        /\ saved' = FALSE
        /\ UNCHANGED <<data_file, written>>

\* the date picker is set to d: the script runs, stores the formatted date
\* and renders that date's list
SelectDate(d) ==
    \E l \in {load_events(data_file)} :
        /\ date_picker' = d
        /\ selected_date_str' = strftime(d)
        /\ events' = l.doc
        /\ msgs' = RenderMsgs(l, strftime(d))
        /\ fired' = "date_picker"
        /\ saved' = FALSE
        /\ UNCHANGED <<data_file, current_year, current_month, written>>

\* AddEvent without the test of the title
AddEvent_any_title(title, description, t) ==
    LET l  == load_events(data_file)
        e2 == add_event(l.doc, selected_date_str, title, description,
                        isoformat(Today, t))
        f2 == save_events(e2)
        l2 == load_events(f2)
    IN  /\ CountEvents(l.doc) < MaxEvents
        /\ written' = e2
        /\ data_file' = f2
        /\ events' = l2.doc
        /\ msgs' = LoadMsgs(l) \cup {"success_add"}
                   \cup RenderMsgs(l2, selected_date_str)
        /\ fired' = "add_event_button"
        /\ saved' = TRUE
        /\ UNCHANGED <<current_year, current_month, date_picker, selected_date_str>>

\* the add button, with the form holding title and description and
\* datetime.now() reading t.  A non-empty title: the record is appended to
\* the loaded document, the document is saved and st.rerun() loads it
\* again.  An empty title: a warning, and the run goes on to render.
AddEvent(title, description, t) ==
    LET l  == load_events(data_file)
        e2 == add_event(l.doc, selected_date_str, title, description,
                        isoformat(Today, t))
        f2 == save_events(e2)
        l2 == load_events(f2)
    IN  IF title # <<>>
          THEN /\ CountEvents(l.doc) < MaxEvents
               /\ written' = e2
               /\ data_file' = f2
               /\ events' = l2.doc
               /\ msgs' = LoadMsgs(l) \cup {"success_add"}
                          \cup RenderMsgs(l2, selected_date_str)
               /\ fired' = "add_event_button"
               /\ saved' = TRUE
               /\ UNCHANGED <<current_year, current_month, date_picker,
                              selected_date_str>>
          ELSE /\ events' = l.doc
               /\ msgs' = {"warning"} \cup RenderMsgs(l, selected_date_str)
               /\ fired' = "add_event_button"
               /\ saved' = FALSE
               /\ UNCHANGED <<data_file, current_year, current_month, date_picker,
                              selected_date_str, written>>

\* DeleteEvent with a click past the end of the list taken for the last
\* position
DeleteEvent_clamped(i) ==
    LET l  == load_events(data_file)
        n  == Len(daily_events(l.doc, selected_date_str))
        e2 == delete_event(l.doc, selected_date_str, IF i < n THEN i ELSE n - 1)
        f2 == save_events(e2)
        l2 == load_events(f2)
    IN  IF n > 0
          THEN /\ written' = e2
               /\ data_file' = f2
               /\ events' = l2.doc
               /\ msgs' = LoadMsgs(l) \cup {"success_delete"}
                          \cup RenderMsgs(l2, selected_date_str)
               /\ fired' = "delete_event"
               /\ saved' = TRUE
               /\ UNCHANGED <<current_year, current_month, date_picker,
                              selected_date_str>>
          ELSE /\ events' = l.doc
               /\ msgs' = RenderMsgs(l, selected_date_str)
               /\ fired' = "delete_event"
               /\ saved' = FALSE
               /\ UNCHANGED <<data_file, current_year, current_month, date_picker,
                              selected_date_str, written>>

\* a click on the delete button with key delete_event_<date>_<i>.  The run
\* shows a button for each position of the loaded list; the click fires the
\* handler only when the run shows that button.
DeleteEvent(i) ==
    LET l  == load_events(data_file)
        e2 == delete_event(l.doc, selected_date_str, i)
        f2 == save_events(e2)
        l2 == load_events(f2)
    IN  IF i < Len(daily_events(l.doc, selected_date_str))
          THEN /\ written' = e2
               /\ data_file' = f2
               /\ events' = l2.doc
               /\ msgs' = LoadMsgs(l) \cup {"success_delete"}
                          \cup RenderMsgs(l2, selected_date_str)
               /\ fired' = "delete_event"
               /\ saved' = TRUE
               /\ UNCHANGED <<current_year, current_month, date_picker,
                              selected_date_str>>
          ELSE /\ events' = l.doc
               /\ msgs' = RenderMsgs(l, selected_date_str)
               /\ fired' = "delete_event"
               /\ saved' = FALSE
               /\ UNCHANGED <<data_file, current_year, current_month, date_picker,
                              selected_date_str, written>>

Next ==
    \/ PrevMonth /\ UNCHANGED <<sessions, trail>>
    \/ NextMonth /\ UNCHANGED <<sessions, trail>>
    \/ \E d \in Days : SelectDate(d) /\ UNCHANGED <<sessions, trail>>
    \/ \E form \in Forms, t \in Times :
          AddEvent(form[1], form[2], t) /\ UNCHANGED <<sessions, trail>>
    \/ \E i \in 0..MaxEvents : DeleteEvent(i) /\ UNCHANGED <<sessions, trail>>

Spec == Init /\ [][Next]_vars

(* --------------------------- several sessions -------------------------- *)
(* SpecConc: the sessions of Sessions run the script against the one file. *)
(* A script run is no longer one step: the load of line 39, the handler up *)
(* to open(DATA_FILE, 'w'), the write of the document at the close of the  *)
(* file, and the load of the run st.rerun() starts are steps of their own, *)
(* and the steps of different sessions interleave.  Every session keeps    *)
(* today's date selected.  A session record holds                          *)
(*   pc       idle | loaded | opened | rerun                               *)
(*   doc      the run's events                                             *)
(*   err      whether the run's load reported a corrupt file               *)
(*   view     the list the page shows between two runs                     *)
(*   ev       the widget event the run handles                             *)
(*   base     the document the run loaded, once the handler changed doc    *)
(*   target   the record under the delete button the user pressed          *)
(*   removed  the record the delete handler removed                        *)
(*   over     whether another session's save began ("began") and ended     *)
(*            ("done") since this run's load, no saves overlapping         *)
(*   runs     the script runs the user of the session has started          *)
(* target and removed hold one element, or none.                           *)

\* open(DATA_FILE, 'w'): the file is created or cut to length 0
open_w(f) == [exists |-> TRUE, content |-> <<>>]

\* json.dump(events, f, ...) and the close of the file: the text leaves the
\* buffer in one write at the handle's position 0 (the documents of the
\* model are shorter than the buffer); what the file holds beyond the text,
\* written by another handle since this one was opened, stays
write_close(f, doc) ==
    [exists |-> TRUE,
     content |-> json_dump(doc)
                 \o SubSeq(f.content, Len(json_dump(doc)) + 1, Len(f.content))]

\* what the user of a page showing `view` can do: press the add button with
\* a form, or press one of the delete buttons shown
UserEvents(view) ==
    { WidgetEvent("add", form[1], form[2], 0) : form \in Forms }
    \cup { WidgetEvent("delete", <<>>, <<>>, i) : i \in 0..(Len(view) - 1) }

\* the script runs the users of the sessions in S have started
RECURSIVE RunsStarted(_)
RunsStarted(S) ==
    IF S = {} THEN 0
    ELSE LET s == CHOOSE t \in S : TRUE
         IN  sessions[s].runs + RunsStarted(S \ {s})

\* the user of session s triggers ev: the script starts and loads the file
BeginRun(s, ev) ==
    \E l \in {load_events(data_file)} :
        /\ sessions[s].pc = "idle"
        /\ RunsStarted(Sessions) < MaxRuns
        /\ (ev.w = "add" /\ ev.title # <<>>) => CountEvents(l.doc) < MaxEvents
        /\ sessions' = [sessions EXCEPT ![s] =
               [@ EXCEPT !.pc = "loaded", !.doc = l.doc, !.err = l.err, !.ev = ev,
                         !.view = <<>>, !.runs = @ + 1,
                         !.target = IF ev.w = "delete"
                                      THEN <<sessions[s].view[ev.i + 1]>> ELSE <<>>]]
        /\ UNCHANGED <<data_file, events, current_year, current_month, date_picker,
                       selected_date_str, fired, msgs, saved, written, trail>>

\* the handler of session s has changed its events to doc2 (removing the
\* records `removed`) and opens the file for writing
Opens(s, doc2, removed) ==
    /\ data_file' = open_w(data_file)
    /\ sessions' = [t \in Sessions |->
          IF t = s
            THEN [sessions[s] EXCEPT
                    !.pc = "opened", !.doc = doc2, !.base = sessions[s].doc,
                    !.removed = removed,
                    !.over = IF \E u \in Sessions \ {s} : sessions[u].pc = "opened"
                               THEN "none" ELSE @]
          ELSE IF sessions[t].pc = "loaded"
            THEN [sessions[t] EXCEPT !.over = "began"]
          ELSE IF sessions[t].pc = "opened"
            THEN [sessions[t] EXCEPT !.over = "none"]
          ELSE sessions[t]]

\* the run of session s goes on to render without having saved
Renders(s) ==
    /\ sessions' = [sessions EXCEPT ![s] =
           Quiet(@.err, daily_events(@.doc, selected_date_str), @.runs)]
    /\ UNCHANGED data_file

\* Handle with the document read again from the file before the change
Handle_reloads(s) ==
    \E me \in {sessions[s]}, now \in {load_events(data_file).doc} :
      \E n \in {Len(daily_events(now, selected_date_str))} :
        /\ me.pc = "loaded"
        /\ IF me.ev.w = "add" /\ me.ev.title # <<>>
             THEN Opens(s, add_event(now, selected_date_str, me.ev.title,
                                     me.ev.description, isoformat(Today, 0)), <<>>)
           ELSE IF me.ev.w = "delete" /\ me.ev.i < n
             THEN Opens(s, delete_event(now, selected_date_str, me.ev.i),
                        <<daily_events(now, selected_date_str)[me.ev.i + 1]>>)
           ELSE Renders(s)
        /\ UNCHANGED <<events, current_year, current_month, date_picker,
                       selected_date_str, fired, msgs, saved, written, trail>>

\* the handler of the run of session s, on the events the run loaded: the
\* add handler (empty title: a warning), or the delete handler when the run
\* shows the pressed button, up to open(DATA_FILE, 'w') in save_events
Handle(s) ==
    \E me \in {sessions[s]} :
      \E n \in {Len(daily_events(me.doc, selected_date_str))} :
        /\ me.pc = "loaded"
        /\ IF me.ev.w = "add" /\ me.ev.title # <<>>
             THEN Opens(s, add_event(me.doc, selected_date_str, me.ev.title,
                                     me.ev.description, isoformat(Today, 0)), <<>>)
           ELSE IF me.ev.w = "delete" /\ me.ev.i < n
             THEN Opens(s, delete_event(me.doc, selected_date_str, me.ev.i),
                        <<daily_events(me.doc, selected_date_str)[me.ev.i + 1]>>)
           ELSE Renders(s)
        /\ UNCHANGED <<events, current_year, current_month, date_picker,
                       selected_date_str, fired, msgs, saved, written, trail>>

\* json.dump and the close of the file in save_events, in session s
Close(s) ==
    /\ sessions[s].pc = "opened"
    /\ data_file' = write_close(data_file, sessions[s].doc)
    /\ sessions' = [t \in Sessions |->
          IF t = s
            THEN [sessions[s] EXCEPT !.pc = "rerun"]
          ELSE IF sessions[t].pc = "loaded" /\ sessions[t].over = "began"
            THEN [sessions[t] EXCEPT !.over = "done"]
          ELSE sessions[t]]
    /\ UNCHANGED <<events, current_year, current_month, date_picker,
                   selected_date_str, fired, msgs, saved, written, trail>>

\* st.rerun() after the save: the script runs again, loads and renders
Rerun(s) ==
    \E l \in {load_events(data_file)} :
        /\ sessions[s].pc = "rerun"
        /\ sessions' = [sessions EXCEPT ![s] =
               Quiet(l.err, daily_events(l.doc, selected_date_str), @.runs)]
        /\ UNCHANGED <<data_file, events, current_year, current_month, date_picker,
                       selected_date_str, fired, msgs, saved, written, trail>>

\* the sessions have had their first script run, on a file that holds a
\* whole document or on none
InitConc ==
    /\ data_file \in {NoFile, save_events(PairDoc)}
    /\ events = load_events(data_file).doc
    /\ current_year = Today[1]
    /\ current_month = Today[2]
    /\ date_picker = Today
    /\ selected_date_str = strftime(Today)
    /\ fired = "none"
    /\ msgs = RenderMsgs(load_events(data_file), strftime(Today))
    /\ saved = FALSE
    /\ written = <<>>
    /\ sessions = [s \in Sessions |->
                     Quiet(load_events(data_file).err,
                           daily_events(load_events(data_file).doc, strftime(Today)),
                           0)]
    /\ trail = <<>>

NextConc ==
    \E s \in Sessions :
        \/ \E ev \in UserEvents(sessions[s].view) : BeginRun(s, ev)
        \/ Handle(s)
        \/ Close(s)
        \/ Rerun(s)

SpecConc == InitConc /\ [][NextConc]_vars

\* the handler's change to the document doc for the widget event ev
Mutated(ev, doc) ==
    IF ev.w = "add"
      THEN add_event(doc, selected_date_str, ev.title, ev.description,
                     isoformat(Today, 0))
      ELSE delete_event(doc, selected_date_str, ev.i)

(* --------------------------- creation order ---------------------------- *)
(* SpecOrder: one session, in which every add reads the clock later than   *)
(* every timestamp the document holds, so that the timestamps of the       *)
(* records tell the order in which they were added.                        *)

\* the clock reading of a timestamp, as isoformat wrote it
ReadingOf(timestamp) ==
    Only({ 10 * (a - 1) + (b - 1) : a \in {j \in 1..10 : Digits[j] = timestamp[12]},
                                    b \in {j \in 1..10 : Digits[j] = timestamp[13]} })

\* the event records of the document
Records(doc) ==
    UNION { UNION { { doc[a].v[b].v[c] : c \in 1..Len(doc[a].v[b].v) }
                    : b \in 1..Len(doc[a].v) }
            : a \in 1..Len(doc) }

\* datetime.now() of an add on the document doc: later than every record's
NextReading(doc) ==
    1 + Only({ IF R = {} THEN 0 ELSE CHOOSE r \in R : \A q \in R : q <= r
               : R \in {{ReadingOf(Get(e, K_timestamp)) : e \in Records(doc)}} })

NextOrder ==
    \/ \E d \in Days : SelectDate(d) /\ UNCHANGED <<sessions, trail>>
    \/ \E form \in Forms, t \in {NextReading(events)} :
          /\ t <= MaxClock
          /\ AddEvent(form[1], form[2], t)
          /\ UNCHANGED <<sessions, trail>>
    \/ \E i \in 0..MaxEvents : DeleteEvent(i) /\ UNCHANGED <<sessions, trail>>

SpecOrder == Init /\ [][NextOrder]_vars

(* ------------------------------ navigation ----------------------------- *)
(* SpecNav: one session that only presses the two navigation buttons, any  *)
(* number of months away from the month it started in (up to MaxPresses    *)
(* presses), and starts in any month of the year.  trail records every     *)
(* press: the button, the cursor <<year, month>> before and after.         *)

\* the "prev_month" handler's new cursor
prev_month(year, month) ==
    IF month - 1 < 1 THEN <<year - 1, 12>> ELSE <<year, month - 1>>

\* next_month without the year's increment at the wrap
next_month_no_year(year, month) ==
    IF month + 1 > 12 THEN <<year, 1>> ELSE <<year, month + 1>>

\* the "next_month" handler's new cursor
next_month(year, month) ==
    IF month + 1 > 12 THEN <<year + 1, 1>> ELSE <<year, month + 1>>

\* a navigation button is pressed and takes the cursor to `to`; st.rerun()
\* runs the script again, which loads the document and renders
Press(button, to) ==
    \E l \in {load_events(data_file)} :
        /\ Len(trail) < MaxPresses
        /\ current_year' = to[1]
        /\ current_month' = to[2]
        /\ events' = l.doc
        /\ msgs' = RenderMsgs(l, selected_date_str)
        /\ fired' = button
        /\ saved' = FALSE
        /\ trail' = Append(trail, [button |-> button,
                                    from |-> <<current_year, current_month>>,
                                    to |-> to])
        /\ UNCHANGED <<data_file, date_picker, selected_date_str, written, sessions>>

PressPrev == Press("prev_month", prev_month(current_year, current_month))

PressNext == Press("next_month", next_month(current_year, current_month))

\* the first script run of a session that starts on the first day of a month
InitNav ==
    /\ data_file = NoFile
    /\ events = load_events(data_file).doc
    /\ current_year = Today[1]
    /\ current_month \in 1..12
    /\ date_picker = <<current_year, current_month, 1>>
    /\ selected_date_str = strftime(date_picker)
    /\ fired = "none"
    /\ msgs = RenderMsgs(load_events(data_file), selected_date_str)
    /\ saved = FALSE
    /\ written = <<>>
    /\ sessions = <<>>
    /\ trail = <<>>

NextNav == PressPrev \/ PressNext

SpecNav == InitNav /\ [][NextNav]_vars

(* ------------------------------ properties ----------------------------- *)

\* no year-month key maps to an empty mapping, no date key to an empty list
Pruned(doc) ==
    \A a \in 1..Len(doc) :
        /\ doc[a].v # <<>>
        /\ \A b \in 1..Len(doc[a].v) : doc[a].v[b].v # <<>>

\* the file's text holds no empty list, and no empty mapping other than a
\* whole document that is {}
NoEmptyContainerInFile ==
    \A j \in 1..(Len(data_file.content) - 1) :
        /\ data_file.content[j].t = "[" => data_file.content[j + 1].t # "]"
        /\ (j > 1 /\ data_file.content[j].t = "{") => data_file.content[j + 1].t # "}"

\* the file exists and its text is not JSON
Malformed(f) == f.exists /\ ~json_load(f.content).ok

\* the date keys of the document
DateKeys(doc) ==
    UNION { { doc[a].v[b].k : b \in 1..Len(doc[a].v) } : a \in 1..Len(doc) }

\* C1: in every state reached from the empty document by add and delete
\* interactions, the document in memory when the handler has finished (the
\* one passed to save_events), the document of the run that follows and the
\* text of the file hold no year-month key with an empty mapping and no date
\* key with an empty list.
C1_PruningInvariant ==
    /\ Pruned(written)
    /\ Pruned(events)
    /\ NoEmptyContainerInFile

\* a delete has just emptied the document: the date key and the year-month
\* key went with the last event
C1_Witness ==
    /\ fired = "delete_event" /\ saved
    /\ events = <<>>
    /\ data_file = save_events(<<>>)

\* C2: an add with a non-empty title appends exactly one record {title,
\* description, timestamp} at the end of the list at
\* doc[selected_date_str[:7]][selected_date_str], creating the year-month
\* mapping and the date list when absent; the list grows by one and its
\* previous elements keep their positions.
C2_AddAppendsAtEnd ==
    [][\A form \in Forms, t \in Times :
         (/\ form[1] # <<>>
          /\ fired' = "add_event_button"
          /\ AddEvent(form[1], form[2], t)) =>
           \A d \in {selected_date_str}, old \in {daily_events(events, selected_date_str)},
              new \in {daily_events(events', selected_date_str)} :
               /\ HasKey(events', Prefix(d, 7))
               /\ HasKey(Get(events', Prefix(d, 7)), d)
               /\ Len(new) = Len(old) + 1
               /\ \A j \in 1..Len(old) : new[j] = old[j]
               /\ new[Len(new)] = << [k |-> K_title, v |-> form[1]],
                                     [k |-> K_description, v |-> form[2]],
                                     [k |-> K_timestamp, v |-> isoformat(Today, t)] >>
               /\ CountEvents(events') = CountEvents(events) + 1
      ]_vars

\* an add has just put a record behind an earlier one
C2_Witness ==
    /\ fired = "add_event_button" /\ saved
    /\ Len(daily_events(events, selected_date_str)) >= 2

\* C3: an add with an empty title is rejected: the document in memory and
\* the file stay as they were, save_events is not called, and the handler
\* shows the warning and no success message.
C3_EmptyTitleRejected ==
    [][\A form \in Forms, t \in Times :
         (/\ form[1] = <<>>
          /\ fired' = "add_event_button"
          /\ AddEvent(form[1], form[2], t)) =>
           /\ events' = events
           /\ data_file' = data_file
           /\ written' = written
           /\ ~saved'
           /\ "warning" \in msgs'
           /\ msgs' \cap {"success_add", "success_delete"} = {}
      ]_vars

\* an add with an empty title has just been rejected on a document that
\* holds events
C3_Witness ==
    /\ fired = "add_event_button" /\ ~saved
    /\ "warning" \in msgs
    /\ events # <<>>

\* C4: a delete at an index i within the list of the selected date removes
\* exactly the element at i: the list is one shorter, the elements before i
\* keep their positions and those after i move down by one; the date key
\* goes when the list became empty and the year-month key when its mapping
\* became empty.
C4_DeleteRemovesAtIndex ==
    [][\A i \in 0..MaxEvents :
         (/\ i < Len(daily_events(events, selected_date_str))
          /\ fired' = "delete_event"
          /\ DeleteEvent(i)) =>
           \A d \in {selected_date_str}, ym \in {Prefix(selected_date_str, 7)},
              old \in {daily_events(events, selected_date_str)},
              new \in {daily_events(events', selected_date_str)} :
               /\ Len(new) = Len(old) - 1
               /\ \A j \in 1..i : new[j] = old[j]
               /\ \A j \in (i + 1)..Len(new) : new[j] = old[j + 1]
               /\ HasDate(events', d) <=> Len(old) > 1
               /\ HasKey(events', ym) <=> (Len(old) > 1 \/ Len(Get(events, ym)) > 1)
      ]_vars

\* a delete has just taken one event out of a list that still holds others
C4_Witness ==
    /\ fired = "delete_event" /\ saved
    /\ daily_events(events, selected_date_str) # <<>>

\* C5: a delete click whose index is out of range for the current list of
\* the selected date changes neither the document in memory nor the file.
C5_OutOfRangeDeleteNoOp ==
    [][\A i \in 0..MaxEvents :
         (/\ i >= Len(daily_events(events, selected_date_str))
          /\ fired' = "delete_event"
          /\ DeleteEvent(i)) =>
           /\ events' = events
           /\ data_file' = data_file
           /\ written' = written
           /\ ~saved'
      ]_vars

\* a delete click past the end of the list has just been handled on a
\* document that holds events
C5_Witness ==
    /\ fired = "delete_event" /\ ~saved
    /\ events # <<>>

\* C6: save followed by load returns the document that was saved: after an
\* interaction that saved, the file decodes without error to the document
\* passed to save_events, non-ASCII text and escaped characters included.
C6_RoundTrip ==
    saved =>
        /\ data_file.exists
        /\ json_load(data_file.content).ok
        /\ json_load(data_file.content).v = written
        /\ events = written

\* a document with a non-ASCII title, a quote, a newline and a backslash
\* has just been saved and loaded back
C6_Witness ==
    /\ saved
    /\ \E a \in 1..Len(events) : \E b \in 1..Len(events[a].v) :
         \E c \in 1..Len(events[a].v[b].v) :
            /\ Get(events[a].v[b].v[c], K_title) = <<"U+4F1A", "\"">>
            /\ Get(events[a].v[b].v[c], K_description) = <<"U+8B70", "\n", "\\">>

\* C7: previousMonth takes (Y, m) to (Y, m-1) when m > 1 and (Y, 1) to
\* (Y-1, 12); nextMonth takes (Y, m) to (Y, m+1) when m < 12 and (Y, 12) to
\* (Y+1, 1); both are enabled in every state (within the model's cap on the
\* cursor) and the year changes only at the wrap.
C7_MonthNavigation ==
    /\ [](NavOffset > -MaxNav => ENABLED PrevMonth)
    /\ [](NavOffset < MaxNav => ENABLED NextMonth)
    /\ [][(fired' = "prev_month" /\ PrevMonth) =>
            IF current_month > 1
              THEN current_month' = current_month - 1 /\ current_year' = current_year
              ELSE current_month' = 12 /\ current_year' = current_year - 1]_vars
    /\ [][(fired' = "next_month" /\ NextMonth) =>
            IF current_month < 12
              THEN current_month' = current_month + 1 /\ current_year' = current_year
              ELSE current_month' = 1 /\ current_year' = current_year + 1]_vars

\* previousMonth has just wrapped from January to December of the year before
C7_Witness ==
    /\ fired = "prev_month"
    /\ current_month = 12
    /\ current_year = Today[1]

\* C8: at the end of every previousMonth and nextMonth interaction the
\* displayed month is an integer in 1..12.
C8_MonthInRange == current_month \in 1..12

\* nextMonth has just wrapped from December to January
C8_Witness ==
    /\ fired = "next_month"
    /\ current_month = 1
    /\ current_year = Today[1] + 1

\* C9: adding an event at a date and then deleting the last index of that
\* date's list restores the document: from every reachable document, the
\* delete interaction applied to the outcome of an add yields the document
\* the add started from, {} included.
C9_AddThenDeleteRestores ==
    [][\A form \in Forms, t \in Times :
         (/\ form[1] # <<>>
          /\ fired' = "add_event_button"
          /\ AddEvent(form[1], form[2], t)) =>
           \A l \in {load_events(data_file').doc} :
             \A n \in {Len(daily_events(l, selected_date_str'))} :
               /\ n >= 1
               /\ \A f3 \in {save_events(delete_event(l, selected_date_str', n - 1))} :
                     /\ load_events(f3).doc = events
                     /\ (events = <<>> => f3 = save_events(<<>>))
      ]_vars

\* an add has just created the date key in a document that held other
\* events: the delete that undoes it has to prune
C9_Witness ==
    /\ fired = "add_event_button" /\ saved
    /\ Len(daily_events(events, selected_date_str)) = 1
    /\ CountEvents(events) >= 2

\* C10: a load of malformed JSON returns {} and reports the error, and does
\* not touch the file: the file changes only in an add or delete
\* interaction that saved.
C10_MalformedLoad ==
    /\ [](Malformed(data_file) => (events = <<>> /\ "error" \in msgs))
    /\ [][data_file' # data_file =>
            /\ saved'
            /\ fired' \in {"add_event_button", "delete_event"}
            /\ data_file' = save_events(written')]_vars

\* a run after the first has loaded the malformed file again, still as it was
C10_Witness ==
    /\ Malformed(data_file)
    /\ fired = "date_picker"
    /\ events = <<>>
    /\ "error" \in msgs

\* C11: a save is atomic for readers: no load of a session, at whatever
\* point of another session's save_events it runs, finds the file partly
\* written; it reads the whole old or the whole new document, so no load
\* reports a corrupt file.
C11_SaveAtomicForReaders == \A s \in Sessions : ~sessions[s].err

\* C12: a delete removes no other event than the one whose button the user
\* pressed: when the list changed between the render that showed the button
\* and the run that handles the click, the handler removes that same event
\* or nothing.
C12_DeleteHitsItsEvent ==
    \A s \in Sessions :
        sessions[s].removed # <<>> => sessions[s].removed = sessions[s].target

\* C14: lost update: when a session saves after another session's whole
\* save, having loaded before that save began, the file then holds exactly
\* the document the later session saved, which is its own change applied to
\* the document it loaded: the earlier saver's change is not in it.
C14_LostUpdate ==
    [][\A t \in Sessions :
         (/\ sessions[t].pc = "opened"
          /\ sessions[t].over = "done"
          /\ sessions'[t].pc = "rerun") =>
            \A me \in {sessions[t]} :
              /\ data_file' = save_events(me.doc)
              /\ load_events(data_file').doc = Mutated(me.ev, me.base)
              /\ CountEvents(load_events(data_file').doc)
                   = CountEvents(me.base) + (IF me.ev.w = "add" THEN 1 ELSE -1)
      ]_vars

\* two sessions loaded the empty store and each saved an add, one after the
\* other: the file holds one event
C14_Witness ==
    \E s \in Sessions, t \in Sessions :
        /\ s # t
        /\ sessions[s].pc = "rerun" /\ sessions[s].ev.w = "add"
        /\ sessions[t].pc = "rerun" /\ sessions[t].ev.w = "add"
        /\ sessions[t].over = "done"
        /\ sessions[t].base = <<>>
        /\ data_file = save_events(sessions[t].doc)
        /\ CountEvents(load_events(data_file).doc) = 1

\* C13: in a single session the store follows memory: after every add (with
\* a title) and every delete that was handled, the file is the text of the
\* whole document the handler produced from the loaded one, and a load of
\* it (the one of the run that follows) returns that document; any other
\* interaction leaves the file as it was.
C13_StoreFollowsMemory ==
    [][/\ saved' =>
            \A old \in {load_events(data_file).doc}, new \in {load_events(data_file')} :
              /\ data_file' = [exists |-> TRUE, content |-> json_dump(written')]
              /\ new = [doc |-> written', err |-> FALSE]
              /\ events' = written'
              /\ \/ /\ fired' = "add_event_button"
                    /\ \E form \in Forms, t \in Times :
                          written' = add_event(old, selected_date_str, form[1],
                                               form[2], isoformat(Today, t))
                 \/ /\ fired' = "delete_event"
                    /\ \E i \in 0..MaxEvents :
                          /\ i < Len(daily_events(old, selected_date_str))
                          /\ written' = delete_event(old, selected_date_str, i)
       /\ ~saved' => (data_file' = data_file /\ written' = written)
      ]_vars

\* a save has just written a document of two year-months, and the run that
\* followed loaded both
C13_Witness ==
    /\ saved
    /\ Len(written) = 2
    /\ Len(events) = 2
    /\ data_file = save_events(written)

\* C15: creation order is kept: after any sequence of adds and deletes of a
\* single session, the events that remain in each date's list stand in the
\* order in which they were added (here: by the clock readings of their
\* timestamps, each add reading the clock later than the adds before it).
C15_CreationOrderKept ==
    \A doc \in {events, written} :
        \A a \in 1..Len(doc) : \A b \in 1..Len(doc[a].v) :
            \A l \in {doc[a].v[b].v} :
                \A i \in 1..Len(l), j \in 1..Len(l) :
                    i < j => ReadingOf(Get(l[i], K_timestamp))
                               < ReadingOf(Get(l[j], K_timestamp))

\* the second and the third event added remain, in that order, after the
\* first was deleted
C15_Witness ==
    \E l \in {daily_events(events, selected_date_str)} :
        /\ Len(l) = 2
        /\ ReadingOf(Get(l[1], K_timestamp)) = 2
        /\ ReadingOf(Get(l[2], K_timestamp)) = 3

\* C16: an add or a delete on the selected date leaves the list of every
\* other date as it was, and changes no field of a record that remains: the
\* date's new list is its old list with one record appended, or with one
\* record taken out, or the old list itself.
C16_OtherDatesUntouched ==
    [][fired' \in {"add_event_button", "delete_event"} =>
         \A doc2 \in {events', written'} :
           (doc2 = events' \/ saved') =>
             /\ \A d \in (DateKeys(events) \cup DateKeys(doc2)) \ {selected_date_str} :
                   /\ HasDate(doc2, d) <=> HasDate(events, d)
                   /\ daily_events(doc2, d) = daily_events(events, d)
             /\ \A old \in {daily_events(events, selected_date_str)},
                   new \in {daily_events(doc2, selected_date_str)} :
                   \/ new = old
                   \/ Len(new) = Len(old) + 1 /\ SubSeq(new, 1, Len(old)) = old
                   \/ \E i \in 1..Len(old) : new = RemoveAt(old, i)
      ]_vars

\* an add has just been saved on a date whose year-month holds another
\* date, which kept its events
C16_Witness ==
    /\ fired = "add_event_button" /\ saved
    /\ \E d \in DateKeys(events) \ {selected_date_str} :
          /\ selected_year_month(d) = selected_year_month(selected_date_str)
          /\ daily_events(events, d) # <<>>

\* C17: listing the events of a date is read-only: it shows the stored list
\* when the keys exist and the empty result otherwise, creates no year-month
\* key and no date key, leaves the document in memory as loaded and does not
\* write the file.
C17_ListingReadOnly ==
    [][\A d \in Days :
         (fired' = "date_picker" /\ SelectDate(d)) =>
           \A ds \in {strftime(d)}, ym \in {Prefix(strftime(d), 7)} :
             /\ events' = events
             /\ HasKey(events', ym) <=> HasKey(events, ym)
             /\ HasDate(events', ds) <=> HasDate(events, ds)
             /\ daily_events(events', ds)
                  = (IF HasKey(events, ym) /\ HasKey(Get(events, ym), ds)
                       THEN Get(Get(events, ym), ds) ELSE <<>>)
             /\ "info" \in msgs' <=> daily_events(events, ds) = <<>>
             /\ data_file' = data_file
             /\ written' = written
             /\ ~saved'
      ]_vars

\* a date without events has just been listed while its year-month holds
\* another date
C17_Witness ==
    /\ fired = "date_picker"
    /\ "info" \in msgs
    /\ HasKey(events, selected_year_month(selected_date_str))
    /\ ~HasDate(events, selected_date_str)

\* C18: the navigation buttons leave the document, the file and the selected
\* date as they were; add, delete and the selection of a date leave the
\* month cursor as it was.
C18_CursorAndDataApart ==
    [][/\ fired' \in {"prev_month", "next_month"} =>
            /\ events' = events
            /\ data_file' = data_file
            /\ written' = written
            /\ date_picker' = date_picker
            /\ selected_date_str' = selected_date_str
       /\ fired' \in {"add_event_button", "delete_event", "date_picker"} =>
            /\ current_year' = current_year
            /\ current_month' = current_month
      ]_vars

\* a date of another month than the displayed one has just been selected
C18_Witness ==
    /\ fired = "date_picker"
    /\ <<date_picker[1], date_picker[2]>> # <<current_year, current_month>>
    /\ events # <<>>

\* C19: every date key stored under a year-month key K begins with K (its
\* first 7 characters are K), so that a date is stored under no more than
\* one year-month key.
C19_DateUnderItsMonth ==
    \A doc \in {events, written} :
        /\ \A a \in 1..Len(doc) : \A b \in 1..Len(doc[a].v) :
              /\ Len(doc[a].k) = 7
              /\ SubSeq(doc[a].v[b].k, 1, 7) = doc[a].k
        /\ \A a1 \in 1..Len(doc), a2 \in 1..Len(doc) :
              (\E b1 \in 1..Len(doc[a1].v), b2 \in 1..Len(doc[a2].v) :
                   doc[a1].v[b1].k = doc[a2].v[b2].k) => a1 = a2

\* the document holds dates of two year-months, the later one first
C19_Witness ==
    /\ Len(events) = 2
    /\ events[1].k = Prefix(strftime(<<2025, 1, 1>>), 7)
    /\ events[2].k = Prefix(strftime(Today), 7)

\* C20: previousMonth and nextMonth undo each other on every cursor (Y, m)
\* with m in 1..12, and twelve presses of nextMonth in a row take (Y, m) to
\* (Y + 1, m).
C20_NavigationInverse ==
    /\ \A k \in 1..Len(trail) :
          /\ trail[k].from[2] \in 1..12
          /\ k > 1 => trail[k].from = trail[k - 1].to
          /\ (k > 1 /\ trail[k].button # trail[k - 1].button) =>
                trail[k].to = trail[k - 1].from
    /\ \A k \in 12..Len(trail) :
          (\A j \in (k - 11)..k : trail[j].button = "next_month") =>
              trail[k].to = <<trail[k - 11].from[1] + 1, trail[k - 11].from[2]>>
    /\ trail # <<>> => trail[Len(trail)].to = <<current_year, current_month>>

\* nextMonth has been pressed twelve times in a row from June and has
\* arrived in June of the next year
C20_Witness ==
    /\ Len(trail) = 12
    /\ \A j \in 1..12 : trail[j].button = "next_month"
    /\ trail[1].from = <<Today[1], 6>>
    /\ <<current_year, current_month>> = <<Today[1] + 1, 6>>

====
